---- MODULE Spec2Model ----
(***************************************************************************)
(* Model of src/run.py: the TooT-BERT-T command line tool.                 *)
(*                                                                         *)
(* The script loads a tokenizer, an embedding model and a classifier, then *)
(* walks the list of (sequence, id) pairs read from a FASTA file.  For     *)
(* each pair it normalizes the sequence, tokenizes it, embeds it, pools    *)
(* the residue rows and classifies the pooled vector, writing one line to  *)
(* the results file on success and one line to the problem file when the   *)
(* try block raises.                                                       *)
(*                                                                         *)
(* Strings are sequences of one-character strings.  Token ids are kept     *)
(* symbolic (the token text), embedding rows are kept as the position and  *)
(* token they belong to.  Calls into the external libraries (tokenizer,    *)
(* torch model, classifier, file objects, stdout) either return or raise;  *)
(* which one happens is an input of the step.  The tokenizer library is    *)
(* not pinned by the script: the release that is installed decides how a   *)
(* max_length too small for the boundary tokens is handled, and is an      *)
(* input of the run.                                                       *)
(***************************************************************************)
EXTENDS Integers, Sequences, FiniteSets, TLC

VARIABLES
    pc,                 \* position of the script
    records,            \* sequences_ids (line 62), each [seq, id]
    max_seq_len,        \* args.max_seq_len (line 40)
    idx,                \* number of records the for loop has consumed
    sequence,           \* loop variable `sequence` (raw, then normalized)
    id,                 \* loop variable `id`
    tokenized_sequence, \* [input_ids, attention_mask] (lines 86-88)
    embedding,          \* last_hidden_states[0] (line 93), one row per position
    seq_len,            \* line 95
    seq_embedding,      \* line 96
    mean_pool,          \* line 97
    prediction,         \* line 100
    results,            \* lines written to args.output_file
    problems,           \* lines written to args.problem_file
    emitted,            \* both files' lines in the order they were written
    sinksOpened,        \* the with-block of line 77 has been entered
    setupError,         \* the loader that raised before the loop, or "none"
    lastError,          \* the exception the try block raised in the latest
                        \* iteration, or "none"
    uncaught,           \* the exception that left the loop and ended the
                        \* script, or "none"
    tokenizer           \* the tokenizer object of line 66: the truncation
                        \* behaviour of the installed library, "unloaded"
                        \* before line 66

vars == << pc, records, max_seq_len, idx, sequence, id, tokenized_sequence,
           embedding, seq_len, seq_embedding, mean_pool, prediction, results,
           problems, emitted, sinksOpened, setupError, lastError, uncaught,
           tokenizer >>

locals == << sequence, id, tokenized_sequence, embedding, seq_len,
             seq_embedding, mean_pool, prediction >>

outputs == << results, problems, emitted >>

----------------------------------------------------------------------------
(* Bounds of the model *)

MaxRecords == 3     \* longest record list of the batch specification
MaxRawLen == 3      \* longest raw string enumerated over Alphabet
MaxLen == 6         \* largest small max_seq_len enumerated

(* Program constant *)
DefaultMaxSeqLen == 20000

Max(a, b) == IF a > b THEN a ELSE b
Min(a, b) == IF a < b THEN a ELSE b

SeqsUpTo(S, n) == UNION { [1..k -> S] : k \in 0..n }

\* characters the raw strings are enumerated over: residues in and out of
\* the substitution class, a lower-case letter and a whitespace character
Alphabet == {"M", "U", "O", "B", "Z", "z", " "}

\* the strings of the spec's scenarios
ScenarioRaws == { <<"M","U","O","B","Z","K">>, <<"M","K","V">>, <<"M","K","V","L">> }

RawStrings == SeqsUpTo(Alphabet, MaxRawLen) \cup ScenarioRaws

BatchRaws == { <<>>, <<"M","K","V","L">> }

MaxLens == (0..MaxLen) \cup {DefaultMaxSeqLen}

\* a maximum that truncates "MKVL" (6 tokens with the boundary tokens) and
\* the default, which truncates nothing
BatchMaxLens == {5, DefaultMaxSeqLen}

----------------------------------------------------------------------------
(* Normalization, lines 82 and 84 *)

\* concatenation without the separator
JoinNoSep(sep, s) == s

\* str.join: sep between consecutive characters of s
RECURSIVE Join(_, _)
Join(sep, s) ==
    IF Len(s) <= 1 THEN s
    ELSE <<Head(s), sep>> \o Join(sep, Tail(s))

UncommonResidues == {"U", "O", "B", "Z"}

\* re.sub with count=1: only the first match is replaced
ReSubFirst(class, repl, s) ==
    [i \in 1..Len(s) |->
        IF s[i] \in class /\ \A j \in 1..(i - 1) : s[j] \notin class
        THEN repl ELSE s[i]]

\* re.sub of a one-character class
ReSub(class, repl, s) ==
    [i \in 1..Len(s) |-> IF s[i] \in class THEN repl ELSE s[i]]

Normalize(raw) == ReSub(UncommonResidues, "X", Join(" ", raw))

----------------------------------------------------------------------------
(* Tokenization, line 86: BertTokenizer.encode_plus(sequence,              *)
(* add_special_tokens=True, max_length=max_len, truncation=True)           *)

\* whitespace_tokenize: text.strip().split()
RECURSIVE Split(_, _)
Split(s, cur) ==
    IF s = <<>> THEN (IF cur = <<>> THEN <<>> ELSE <<cur>>)
    ELSE IF Head(s) = " "
         THEN (IF cur = <<>> THEN Split(Tail(s), <<>>)
               ELSE <<cur>> \o Split(Tail(s), <<>>))
         ELSE Split(Tail(s), Append(cur, Head(s)))

WhitespaceTokenize(s) == Split(s, <<>>)

\* vocabulary of rostlab/prot_bert_bfd (line 42), case-sensitive (line 66)
Vocab == {"L","A","G","V","E","S","I","K","R","D","T","P","N","Q","F","Y",
          "M","H","C","W","X","U","B","Z","O"}

\* the vocabulary has no continuation pieces: a word is one token
WordPiece(word) ==
    IF Len(word) = 1 /\ word[1] \in Vocab THEN word[1] ELSE "[UNK]"

\* the two behaviours of truncate_sequences (strategy longest_first, no
\* pair) across releases of the library
TokenizerLibs == {"loop", "guarded"}

\* older releases: ids = ids[:-1], num_tokens_to_remove times
RECURSIVE DropLast(_, _)
DropLast(ids, k) ==
    IF k <= 0 \/ ids = <<>> THEN ids
    ELSE DropLast(SubSeq(ids, 1, Len(ids) - 1), k - 1)

\* later releases: if len(ids) > num_tokens_to_remove then
\* ids = ids[:-num_tokens_to_remove], else an error is logged and ids is
\* left as it is
DropGuarded(ids, k) ==
    IF Len(ids) > k THEN SubSeq(ids, 1, Len(ids) - k) ELSE ids

TruncateSequences(lib, ids, k) ==
    IF lib = "guarded" THEN DropGuarded(ids, k) ELSE DropLast(ids, k)

\* add_special_tokens=False: no boundary tokens
TokenizeNoSpecial(lib, text, max_len) ==
    LET words == WhitespaceTokenize(text)
        ids == [i \in 1..Len(words) |-> WordPiece(words[i])]
        kept == IF max_len # 0 /\ Len(ids) > max_len
                THEN TruncateSequences(lib, ids, Len(ids) - max_len)
                ELSE ids
    IN  [input_ids |-> kept,
         attention_mask |-> [i \in 1..Len(kept) |-> 1]]

\* prepare_for_model truncates when
\*   max_length and total_len > max_length
\* (a max_length of 0 is false and truncates nothing), has
\* truncate_sequences remove total_len - max_length tokens from the end of
\* the residue tokens, and then adds the two boundary tokens; no padding is
\* asked for, so every position is attended.
Tokenize(lib, text, max_len) ==
    LET words == WhitespaceTokenize(text)
        ids == [i \in 1..Len(words) |-> WordPiece(words[i])]
        total == Len(ids) + 2
        kept == IF max_len # 0 /\ total > max_len
                THEN TruncateSequences(lib, ids, total - max_len)
                ELSE ids
        input_ids == <<"[CLS]">> \o kept \o <<"[SEP]">>
    IN  [input_ids |-> input_ids,
         attention_mask |-> [i \in 1..Len(input_ids) |-> 1]]

----------------------------------------------------------------------------
(* Embedding, lines 87-93: one row per token position (0-based)            *)

Embed(tok) ==
    [i \in 1..Len(tok.input_ids) |-> [pos |-> i - 1, tok |-> tok.input_ids[i]]]

----------------------------------------------------------------------------
(* Pooling, lines 95-97 *)

SeqLen(mask) == Cardinality({i \in 1..Len(mask) : mask[i] = 1})

\* Python slice s[start:stop] of a sequence
PyIndex(i, n) == IF i < 0 THEN Max(i + n, 0) ELSE Min(i, n)

PySlice(s, start, stop) ==
    LET lo == PyIndex(start, Len(s))
        hi == PyIndex(stop, Len(s))
    IN  IF lo >= hi THEN <<>> ELSE SubSeq(s, lo + 1, hi)

\* the slice [1:seq_len]: the trailing boundary row is kept
PoolRowsToEnd(emb, n) == PySlice(emb, 1, n)

PoolRows(emb, n) == PySlice(emb, 1, n - 1)

\* np.mean(rows, axis=0): NaN over zero rows, no exception (warnings are off)
MeanPool(rows) == [nan |-> rows = <<>>, over |-> Len(rows)]

----------------------------------------------------------------------------
(* Classification, line 100: the label is whatever the loaded classifier   *)
(* maps the feature vector to; it is kept as that application.             *)

Predict(features) == [label_of |-> features]

----------------------------------------------------------------------------
(* The exceptions the try block can raise: the external call that raised.  *)
(* str(e) is kept as the name of the failure.                              *)

PipelineErrors == {"TokenizationError", "InferenceError", "ClassificationError"}

SinkErrors == {"WriteError", "FlushError", "PrintError"}

Errors == PipelineErrors \cup SinkErrors

\* what the try block can raise: the above, all of them Exceptions, and a
\* KeyboardInterrupt during the model call, which is not an Exception
Raised == Errors \cup {"KeyboardInterrupt"}

\* what the handler's own statements can raise: problem_file.write (line
\* 109), problem_file.flush (line 110), print (line 111)
HandlerOutcomes == {"none"} \cup SinkErrors

\* the statement of the try block that raises; "none" runs it to the end
Stage(e) ==
    CASE e = "TokenizationError"   -> 1    \* lines 86-88
      [] e = "InferenceError"      -> 2    \* lines 90-91
      [] e = "KeyboardInterrupt"   -> 2    \* lines 90-91
      [] e = "ClassificationError" -> 3    \* line 100
      [] e = "WriteError"          -> 4    \* line 102
      [] e = "FlushError"          -> 5    \* line 103
      [] e = "PrintError"          -> 6    \* line 106
      [] OTHER                     -> 7

\* except Exception (line 108)
Caught(e) == e \in Errors

PredictionLine(i, label) == [id |-> i, prediction |-> label]

ProblemLine(i, e) == [id |-> i, message |-> e]

Emission(stream, i) == [stream |-> stream, id |-> i]

NoTokens == [input_ids |-> <<>>, attention_mask |-> <<>>]

NoMean == [nan |-> FALSE, over |-> 0]

NoPrediction == Predict(NoMean)

----------------------------------------------------------------------------
(* The script, lines 57-113 *)

Init ==
    /\ pc = "load_tokenizer"
    /\ records \in { [i \in 1..Len(raws) |->
                        [seq |-> raws[i], id |-> "seq" \o ToString(i)]] :
                     raws \in SeqsUpTo(BatchRaws, MaxRecords) }
    /\ max_seq_len \in BatchMaxLens
    /\ tokenizer = "unloaded"
    /\ uncaught = "none"
    /\ idx = 0
    /\ sequence = <<>>
    /\ id = ""
    /\ tokenized_sequence = NoTokens
    /\ embedding = <<>>
    /\ seq_len = 0
    /\ seq_embedding = <<>>
    /\ mean_pool = NoMean
    /\ prediction = NoPrediction
    /\ results = <<>>
    /\ problems = <<>>
    /\ emitted = <<>>
    /\ sinksOpened = FALSE
    /\ setupError = "none"
    /\ lastError = "none"

\* a loader whose failure is swallowed: the script goes on
LoadLenient(at, next, name) ==
    /\ pc = at
    /\ \E ok \in BOOLEAN :
          /\ pc' = next
          /\ setupError' = IF ok THEN setupError ELSE name
    /\ UNCHANGED << records, max_seq_len, idx, locals, outputs, sinksOpened,
                    lastError, uncaught, tokenizer >>

\* a loader call: it returns, or raises and the script ends (nothing
\* catches it)
Load(at, next, name) ==
    /\ pc = at
    /\ \E ok \in BOOLEAN :
          IF ok THEN pc' = next /\ setupError' = setupError
          ELSE pc' = "aborted" /\ setupError' = name
    /\ UNCHANGED << records, max_seq_len, idx, locals, outputs, sinksOpened,
                    lastError, uncaught, tokenizer >>

\* line 66: the tokenizer that is returned truncates as the installed
\* library does
LoadTokenizer ==
    /\ pc = "load_tokenizer"
    /\ \/ /\ tokenizer' \in TokenizerLibs
          /\ pc' = "load_model"
          /\ setupError' = setupError
       \/ /\ tokenizer' = tokenizer
          /\ pc' = "aborted"
          /\ setupError' = "tokenizer"
    /\ UNCHANGED << records, max_seq_len, idx, locals, outputs, sinksOpened,
                    lastError, uncaught >>

\* lines 67-68
LoadModel == Load("load_model", "load_classifier", "model")

\* line 72
LoadClassifier == Load("load_classifier", "open", "classifier")

\* line 77
OpenSinks ==
    /\ pc = "open"
    /\ pc' = "loop"
    /\ sinksOpened' = TRUE
    /\ UNCHANGED << records, max_seq_len, idx, locals, outputs, setupError,
                    lastError, uncaught, tokenizer >>

\* one iteration of the for loop, lines 78-111: the try block up to the
\* statement that raises, then the handler up to the statement that raises.
\* The join, the re.sub, the slice and np.mean raise nothing; a write that
\* raises writes nothing.  An exception the handler does not catch, and an
\* exception raised inside the handler, leave the loop and end the script.
ProcessRecord ==
    /\ pc = "loop"
    /\ idx < Len(records)
    /\ \E e \in Raised \cup {"none"}, h \in HandlerOutcomes :
        LET rec == records[idx + 1]
            norm == Normalize(rec.seq)
            tok == Tokenize(tokenizer, norm, max_seq_len)
            emb == Embed(tok)
            n == SeqLen(tok.attention_mask)
            rows == PoolRows(emb, n)
            label == Predict(MeanPool(rows))
            written == Stage(e) > 4
            after == IF written THEN Append(results, PredictionLine(rec.id, label))
                     ELSE results
            sent == IF written THEN Append(emitted, Emission("results", rec.id))
                    ELSE emitted
            handled == e # "none" /\ Caught(e)
            logged == handled /\ h # "WriteError"
        IN  /\ (~handled => h = "none")
            /\ idx' = idx + 1
            /\ id' = rec.id
            /\ sequence' = norm
            /\ tokenized_sequence' = IF Stage(e) > 1 THEN tok ELSE tokenized_sequence
            /\ embedding' = IF Stage(e) > 2 THEN emb ELSE embedding
            /\ seq_len' = IF Stage(e) > 2 THEN n ELSE seq_len
            /\ seq_embedding' = IF Stage(e) > 2 THEN rows ELSE seq_embedding
            /\ mean_pool' = IF Stage(e) > 2 THEN MeanPool(rows) ELSE mean_pool
            /\ prediction' = IF Stage(e) > 3 THEN label ELSE prediction
            /\ results' = after
            /\ lastError' = e
            /\ problems' = IF logged THEN Append(problems, ProblemLine(rec.id, e))
                           ELSE problems
            /\ emitted' = IF logged THEN Append(sent, Emission("problems", rec.id))
                          ELSE sent
            /\ uncaught' = IF e = "none" THEN "none"
                           ELSE IF handled THEN h ELSE e
            /\ pc' = IF e = "none" \/ (handled /\ h = "none") THEN "loop"
                     ELSE "aborted"
    /\ UNCHANGED << records, max_seq_len, sinksOpened, setupError, tokenizer >>

\* the loop is exhausted, the files are closed, line 113
Finish ==
    /\ pc = "loop"
    /\ idx = Len(records)
    /\ pc' = "done"
    /\ UNCHANGED << records, max_seq_len, idx, locals, outputs, sinksOpened,
                    setupError, lastError, uncaught, tokenizer >>

Next ==
    \/ LoadTokenizer
    \/ LoadModel
    \/ LoadClassifier
    \/ OpenSinks
    \/ ProcessRecord
    \/ Finish

Spec == Init /\ [][Next]_vars

----------------------------------------------------------------------------
(* The per-record pipeline of lines 82-97, one statement group at a time,  *)
(* on one record drawn from RawStrings, a max_seq_len drawn from MaxLens   *)
(* and a tokenizer drawn from TokenizerLibs.  The tokenizer call and the   *)
(* model call return or raise; a raise ends the pass.                      *)

InitPipe ==
    /\ pc = "normalize"
    /\ \E raw \in RawStrings :
          /\ records = << [seq |-> raw, id |-> "seq1"] >>
          /\ sequence = raw
    /\ max_seq_len \in MaxLens
    /\ tokenizer \in TokenizerLibs
    /\ uncaught = "none"
    /\ idx = 1
    /\ id = "seq1"
    /\ tokenized_sequence = NoTokens
    /\ embedding = <<>>
    /\ seq_len = 0
    /\ seq_embedding = <<>>
    /\ mean_pool = NoMean
    /\ prediction = NoPrediction
    /\ results = <<>>
    /\ problems = <<>>
    /\ emitted = <<>>
    /\ sinksOpened = TRUE
    /\ setupError = "none"
    /\ lastError = "none"

fixed == << records, max_seq_len, idx, id, prediction, outputs, sinksOpened,
            setupError, uncaught, tokenizer >>

\* lines 82-84
NormalizeStep ==
    /\ pc = "normalize"
    /\ sequence' = Normalize(sequence)
    /\ pc' = "tokenize"
    /\ UNCHANGED << fixed, lastError, tokenized_sequence, embedding, seq_len,
                    seq_embedding, mean_pool >>

\* lines 86-88
TokenizeStep ==
    /\ pc = "tokenize"
    /\ \/ /\ tokenized_sequence' = Tokenize(tokenizer, sequence, max_seq_len)
          /\ pc' = "embed"
          /\ lastError' = lastError
       \/ /\ tokenized_sequence' = tokenized_sequence
          /\ pc' = "raised"
          /\ lastError' = "TokenizationError"
    /\ UNCHANGED << fixed, sequence, embedding, seq_len, seq_embedding,
                    mean_pool >>

\* lines 90-93
EmbedStep ==
    /\ pc = "embed"
    /\ \/ /\ embedding' = Embed(tokenized_sequence)
          /\ pc' = "pool"
          /\ lastError' = lastError
       \/ /\ embedding' = embedding
          /\ pc' = "raised"
          /\ lastError' = "InferenceError"
    /\ UNCHANGED << fixed, sequence, tokenized_sequence, seq_len,
                    seq_embedding, mean_pool >>

\* lines 95-97
PoolStep ==
    /\ pc = "pool"
    /\ seq_len' = SeqLen(tokenized_sequence.attention_mask)
    /\ seq_embedding' = PoolRows(embedding, SeqLen(tokenized_sequence.attention_mask))
    /\ mean_pool' = MeanPool(PoolRows(embedding, SeqLen(tokenized_sequence.attention_mask)))
    /\ pc' = "classify"
    /\ UNCHANGED << fixed, lastError, sequence, tokenized_sequence, embedding >>

NextPipe ==
    \/ NormalizeStep
    \/ TokenizeStep
    \/ EmbedStep
    \/ PoolStep

SpecPipe == InitPipe /\ [][NextPipe]_vars

----------------------------------------------------------------------------
(* Properties of the batch loop (specification Spec)                       *)

Ids(lines) == [i \in 1..Len(lines) |-> lines[i].id]

HasLine(lines, i) == \E k \in 1..Len(lines) : lines[k].id = i

InputIds(n) == [i \in 1..n |-> records[i].id]

\* C1: once the loop has finished, every input record has exactly one line,
\* in the results file or in the problem file, so the two files together
\* hold as many lines as there are input records.
Completeness ==
    pc = "done" =>
        /\ Len(results) + Len(problems) = Len(records)
        /\ \A i \in 1..Len(records) :
              HasLine(results, records[i].id) # HasLine(problems, records[i].id)

\* C2: when tokenize, embed or classify raises on record N, the failure is
\* caught and turned into a problem line with N's id and the failure's
\* message, the last line of the problem file; the loop stays alive and
\* takes record N+1, and the script reaches its end only after the last
\* record.
FailureIsolation ==
    /\ (idx > 0 /\ lastError \in PipelineErrors) =>
          /\ pc \in {"loop", "done"}
          /\ problems # <<>>
          /\ problems[Len(problems)] = ProblemLine(records[idx].id, lastError)
          /\ ~HasLine(results, records[idx].id)
    /\ (pc = "loop" /\ idx < Len(records)) => ENABLED ProcessRecord
    /\ pc = "done" => idx = Len(records)

\* C3: the ids of the lines written to the two files, in the order they
\* were written, are the ids of the records consumed so far, in input order.
OrderPreserved == pc \in {"loop", "done"} => Ids(emitted) = InputIds(idx)

\* C4: an empty record whose try block reaches pooling fails there with
\* EmptySequenceError: it gets a problem line with that message and no
\* prediction line.
EmptyRecordIsProblem ==
    \A i \in 1..idx :
        (pc \in {"loop", "done"} /\ records[i].seq = <<>> /\ (i = idx => Stage(lastError) > 2)
           /\ (i < idx => ~\E k \in 1..Len(problems) :
                              /\ problems[k].id = records[i].id
                              /\ Stage(problems[k].message) <= 2))
        => /\ ~HasLine(results, records[i].id)
           /\ \E k \in 1..Len(problems) :
                 problems[k] = ProblemLine(records[i].id, "EmptySequenceError")

\* C9: when a loader raises, the script has ended before the with-block:
\* the files were never opened, no record was consumed and nothing was
\* written.
SetupFailureAborts ==
    setupError # "none" =>
        /\ pc = "aborted"
        /\ ~sinksOpened
        /\ idx = 0
        /\ results = <<>>
        /\ problems = <<>>
        /\ emitted = <<>>

\* witness of C9: the classifier failed to load with records waiting
SetupFailureWitness ==
    /\ setupError = "classifier"
    /\ pc = "aborted"
    /\ Len(records) = MaxRecords

----------------------------------------------------------------------------
(* Properties of the per-record pipeline (specification SpecPipe)          *)

Raw == records[1].seq

Normalized == pc # "normalize"

Tokenized == pc \in {"embed", "pool", "classify"}

Pooled == pc = "classify"

Boundary == {"[CLS]", "[SEP]"}

\* C5: the token batch is never longer than max_seq_len, and its mask is as
\* long as its ids.
TruncationBound ==
    Tokenized =>
        /\ Len(tokenized_sequence.input_ids) <= max_seq_len
        /\ Len(tokenized_sequence.attention_mask) = Len(tokenized_sequence.input_ids)

\* C6: the normalized string holds the raw characters in order with exactly
\* one space between neighbours and none at the ends, U, O, B and Z
\* rewritten to X and every other character unchanged; "MUOBZK" becomes
\* "M X X X X K" and the empty string stays empty.
NormalizeShape ==
    Normalized =>
        /\ Raw = <<>> => sequence = <<>>
        /\ Raw # <<>> => Len(sequence) = 2 * Len(Raw) - 1
        /\ \A i \in 1..Len(Raw) :
              sequence[2 * i - 1] =
                  IF Raw[i] \in {"U", "O", "B", "Z"} THEN "X" ELSE Raw[i]
        /\ \A i \in 1..(Len(Raw) - 1) : sequence[2 * i] = " "
        /\ Raw = <<"M","U","O","B","Z","K">> =>
              sequence = <<"M"," ","X"," ","X"," ","X"," ","X"," ","K">>

\* witness of C6: the scenario string has been normalized
NormalizeWitness ==
    /\ Normalized
    /\ Raw = <<"M","U","O","B","Z","K">>
    /\ sequence = <<"M"," ","X"," ","X"," ","X"," ","X"," ","K">>

Attended == Len(SelectSeq(tokenized_sequence.attention_mask, LAMBDA m : m = 1))

\* C7: the rows averaged are the rows at positions 1 .. seq_len-2, seq_len
\* being the number of attended positions: the first and the last attended
\* position are boundary tokens and are left out, every position between
\* them is a residue token and is taken; 5 attended positions give 3 rows.
PoolSelectsResidues ==
    Pooled =>
        /\ seq_len = Attended
        /\ Len(seq_embedding) = Max(seq_len - 2, 0)
        /\ \A k \in 1..Len(seq_embedding) :
              /\ seq_embedding[k].pos = k
              /\ seq_embedding[k] = embedding[k + 1]
              /\ seq_embedding[k].tok \notin Boundary
        /\ embedding[1].tok = "[CLS]"
        /\ embedding[seq_len].tok = "[SEP]"
        /\ \A p \in 1..Len(embedding) :
              embedding[p].tok \notin Boundary =>
                  \E k \in 1..Len(seq_embedding) : seq_embedding[k] = embedding[p]
        /\ mean_pool.over = Len(seq_embedding)
        /\ seq_len = 5 => Len(seq_embedding) = 3

\* witness of C7: "MKVL" truncated to 5 positions, 3 rows pooled
PoolWitness ==
    /\ Pooled
    /\ Raw = <<"M","K","V","L">>
    /\ max_seq_len = 5
    /\ seq_len = 5
    /\ Len(seq_embedding) = 3

NonSpace(s) == Cardinality({i \in 1..Len(s) : s[i] # " "})

\* C8 as stated: the normalized string has as many whitespace-delimited
\* tokens as the raw string has characters.
TokenCountIsRawLength ==
    Normalized => Len(WhitespaceTokenize(sequence)) = Len(Raw)

\* C8 amended: the normalized string has as many whitespace-delimited
\* tokens as the raw string has non-whitespace characters: as many as it
\* has characters when none of them is whitespace, the empty string
\* included.
TokenCountIsResidueCount ==
    Normalized =>
        /\ Len(WhitespaceTokenize(sequence)) = NonSpace(Raw)
        /\ \A k \in 1..NonSpace(Raw) : Len(WhitespaceTokenize(sequence)[k]) = 1
        /\ (\A i \in 1..Len(Raw) : Raw[i] # " ") =>
              Len(WhitespaceTokenize(sequence)) = Len(Raw)

\* witness of C8: a raw string with a whitespace character between two
\* residues, normalized
TokenCountWitness ==
    /\ Normalized
    /\ Raw = <<"M", " ", "U">>
    /\ Len(WhitespaceTokenize(sequence)) = 2

NotTruncated == max_seq_len >= NonSpace(Raw) + 2

SingleResidue == Len(Raw) = 1 /\ Raw[1] # " "

\* C10 as stated: an empty and a single-residue input, not truncated, both
\* have at most 2 attended positions and no row to average.
ShortInputsPoolNothing ==
    (Pooled /\ NotTruncated /\ (Raw = <<>> \/ SingleResidue)) =>
        /\ seq_len <= 2
        /\ seq_embedding = <<>>

\* C10 amended: not truncated, an empty input has exactly 2 attended
\* positions and no row to average (the mean is NaN); a single-residue
\* input has 3 attended positions and exactly one row to average, the
\* residue's row at position 1.
ShortInputsPooling ==
    (Pooled /\ NotTruncated) =>
        /\ Raw = <<>> =>
              /\ seq_len = 2
              /\ seq_embedding = <<>>
              /\ mean_pool.nan
        /\ SingleResidue =>
              /\ seq_len = 3
              /\ seq_embedding = << embedding[2] >>
              /\ seq_embedding[1].pos = 1
              /\ seq_embedding[1].tok = WordPiece(Normalize(Raw))
              /\ ~mean_pool.nan

\* witness of C10: a single residue pooled over its one row
ShortInputsWitness ==
    /\ Pooled
    /\ Raw = <<"M">>
    /\ max_seq_len = DefaultMaxSeqLen
    /\ seq_len = 3
    /\ Len(seq_embedding) = 1

====
